---------------------------- MODULE Spec2Model ----------------------------
(***************************************************************************)
(* go-rps: the generic option applier rpsutil.Build, the response envelope *)
(* builder httpresponse.HTTPResponseBuilder, and the envelope's custom     *)
(* serializer HTTPResponseOptions.MarshalJSON.                             *)
(*                                                                         *)
(* Go values are records [k, s, n, h]: k the kind, s the text of a string,  *)
(* n the number of an integer (bool: 0/1, slice: its length, struct, array *)
(* and map: the identity of the object, 0 the zero struct or array). A     *)
(* number is h * Limb + n, so that integers beyond 32 bits can be written. *)
(***************************************************************************)
EXTENDS Integers, Sequences, FiniteSets, TLC

VARIABLES
    inst,       \* the type arguments chosen at the use site: [C, D]
    heap,       \* the map objects the caller allocated, by reference
    builders,   \* builders[b] = the Opts slice of the b-th HTTPResponseBuilder
    opts,       \* the providers of the Build call
    ret,        \* what Build returned
    resp,       \* the envelope the caller holds
    calls,      \* calls[b] = the setter calls made on the b-th builder, in order,
                \* each <<field, argument, builder returned>>
    out,        \* what MarshalJSON returned
    pc,         \* the caller's position
    arrays,     \* the backing arrays append allocated for a builder shared by threads
    hdr,        \* the slice header of that builder's Opts: [arr, len, cap]
    threads,    \* threads[t] = the position of thread t inside a setter, with its locals
    mutex,      \* the caller's lock around setter calls: [on, holder]
    prev        \* the Build call before the last: [ret, resp], what it returned
                \* and the envelope of that call as the caller holds it now

vars == <<inst, heap, builders, opts, ret, resp, calls, out, pc, arrays, hdr, threads, mutex,
          prev>>

---------------------------------------------------------------------------
(* Go values *)

GoBool(b) == [k |-> "bool", s |-> "", n |-> IF b THEN 1 ELSE 0, h |-> 0]
GoInt(n) == [k |-> "int", s |-> "", n |-> n, h |-> 0]
GoBigInt(h, n) == [k |-> "int", s |-> "", n |-> n, h |-> h]
GoStr(s) == [k |-> "string", s |-> s, n |-> 0, h |-> 0]
GoStruct(n) == [k |-> "struct", s |-> "", n |-> n, h |-> 0]
GoSlice(n) == [k |-> "slice", s |-> "", n |-> n, h |-> 0]
GoArray(n) == [k |-> "array", s |-> "", n |-> n, h |-> 0]
GoPtr(n) == [k |-> "ptr", s |-> "", n |-> n, h |-> 0]
GoMap(n) == [k |-> "map", s |-> "", n |-> n, h |-> 0]
GoFloat64(h, n) == [k |-> "float64", s |-> "", n |-> n, h |-> h]
GoNil == [k |-> "nil", s |-> "", n |-> 0, h |-> 0]
GoNilSlice == [k |-> "nilslice", s |-> "", n |-> 0, h |-> 0]
GoNilPtr == [k |-> "nilptr", s |-> "", n |-> 0, h |-> 0]
GoNilMap == [k |-> "nilmap", s |-> "", n |-> 0, h |-> 0]
GoChan == [k |-> "chan", s |-> "", n |-> 0, h |-> 0]

\* The limbs of a number: its value is h * Limb + n with 0 <= n < Limb.
Limb == 2^27

NilErr == "<nil>"
UnsupportedTypeError == "json: unsupported type"

\* The zero value of a Go type, by its kind.
ZeroValue(kind) ==
    CASE kind = "bool" -> GoBool(FALSE)
      [] kind = "int" -> GoInt(0)
      [] kind = "string" -> GoStr("")
      [] kind = "struct" -> GoStruct(0)
      [] kind = "array" -> GoArray(0)
      [] kind = "slice" -> GoNilSlice
      [] kind = "ptr" -> GoNilPtr
      [] kind = "map" -> GoNilMap
      [] kind = "any" -> GoNil

\* The type arguments of HTTPResponseOptions[C, D, E, T]: C is int or string,
\* D is any type; E is a map[string]any and T an integer type.
Instantiations ==
    [C : {"int", "string"},
     D : {"string", "int", "bool", "struct", "array", "slice", "ptr", "any"}]

\* The instantiation of the repository's tests.
TestInstantiation == [C |-> "int", D |-> "string"]

FieldNames == {"Success", "Message", "Code", "Data", "Total", "Extra"}

FieldKind(i, f) ==
    CASE f = "Success" -> "bool"
      [] f = "Message" -> "string"
      [] f = "Code" -> i.C
      [] f = "Data" -> i.D
      [] f = "Total" -> "int"
      [] f = "Extra" -> "map"

\* An instance that starts out successful instead of zero.
SuccessfulEnvelope(i) ==
    [Success |-> GoBool(TRUE), Message |-> ZeroValue("string"),
     Code |-> ZeroValue(i.C), Data |-> ZeroValue(i.D),
     Total |-> ZeroValue("int"), Extra |-> ZeroValue("map")]

\* new(T) for T = HTTPResponseOptions[C, D, E, T]: every field zero.
ZeroEnvelope(i) ==
    [Success |-> ZeroValue("bool"), Message |-> ZeroValue("string"),
     Code |-> ZeroValue(i.C), Data |-> ZeroValue(i.D),
     Total |-> ZeroValue("int"), Extra |-> ZeroValue("map")]

---------------------------------------------------------------------------
(* encoding/json as HTTPResponseOptions.MarshalJSON uses it *)

\* A JSON value: null, bool, number, string, object or array.
JNull == [k |-> "null", s |-> "", n |-> 0, h |-> 0]
JBool(n) == [k |-> "bool", s |-> "", n |-> n, h |-> 0]
JNumber(n) == [k |-> "number", s |-> "", n |-> n, h |-> 0]
JBigNumber(h, n) == [k |-> "number", s |-> "", n |-> n, h |-> h]
JString(s) == [k |-> "string", s |-> s, n |-> 0, h |-> 0]
JObject(n) == [k |-> "object", s |-> "", n |-> n, h |-> 0]
JArray(n) == [k |-> "array", s |-> "", n |-> n, h |-> 0]

\* The keys that occur, in the byte order json.Marshal sorts a map's keys in.
KeyOrder == <<"Extra", "ch", "code", "data", "extra", "message", "page", "success", "total">>

\* The struct's fields in declaration order, with their json tags.
CoreFields == <<"Success", "Message", "Code", "Data", "Total">>

JsonName(f) ==
    CASE f = "Success" -> "success"
      [] f = "Message" -> "message"
      [] f = "Code" -> "code"
      [] f = "Data" -> "data"
      [] f = "Total" -> "total"

\* The tags with omitempty missing on Total.
OmitEmptyButTotal(f) == f \in {"Code", "Data"}

OmitEmpty(f) == f \in {"Code", "Data", "Total"}

\* encoding/json's empty value of a field whose static type has kind `kind`:
\* false, 0, a nil pointer, a nil interface value, and any array, slice, map or
\* string of length zero. A struct is never empty, nor is an array of two
\* elements (the arrays here); an interface is empty only when nil.
IsEmptyValue(kind, v) ==
    CASE kind = "any" -> v.k = "nil"
      [] kind \in {"bool", "int"} -> v.n = 0 /\ v.h = 0
      [] kind = "string" -> v.s = ""
      [] kind = "slice" -> v.k = "nilslice" \/ v.n = 0
      [] kind = "ptr" -> v.k = "nilptr"
      [] kind = "map" -> v.k = "nilmap"
      [] OTHER -> FALSE

\* json.Marshal rejects a channel.
Encodable(v) == v.k # "chan"

\* The bits of a float64's significand.
Float64Precision == 53

RECURSIVE BitLen(_)
BitLen(x) == IF x = 0 THEN 0 ELSE 1 + BitLen(x \div 2)

\* The float64 a JSON number (a non-negative integer here) decodes to: the
\* integer itself when it has at most 53 bits, and otherwise the nearest
\* multiple of 2^(bits - 53), the even one of two equally near.
ToFloat64(j) ==
    LET bits == IF j.h = 0 THEN BitLen(j.n) ELSE 27 + BitLen(j.h)
        ulp == IF bits > Float64Precision THEN 2^(bits - Float64Precision) ELSE 1
        q == j.n \div ulp
        r == j.n % ulp
        up == 2 * r > ulp \/ (2 * r = ulp /\ q % 2 = 1)
        n == IF up THEN (q + 1) * ulp ELSE q * ulp
    IN  IF n = Limb THEN GoFloat64(j.h + 1, 0) ELSE GoFloat64(j.h, n)

\* json.Marshal of one encodable value.
EncodeValue(v) ==
    CASE v.k = "bool" -> JBool(v.n)
      [] v.k \in {"int", "float64", "ptr"} -> JBigNumber(v.h, v.n)
      [] v.k = "string" -> JString(v.s)
      [] v.k \in {"struct", "map"} -> JObject(v.n)
      [] v.k \in {"slice", "array"} -> JArray(v.n)
      [] OTHER -> JNull

\* json.Unmarshal of one JSON value into an interface{}: a number becomes a
\* float64, an object a map[string]interface{}, an array a []interface{}.
DecodeValue(j) ==
    CASE j.k = "bool" -> [k |-> "bool", s |-> "", n |-> j.n, h |-> 0]
      [] j.k = "number" -> ToFloat64(j)
      [] j.k = "string" -> GoStr(j.s)
      [] j.k = "object" -> GoMap(j.n)
      [] j.k = "array" -> GoSlice(j.n)
      [] OTHER -> GoNil

NoBytes == [isnil |-> TRUE, obj |-> <<>>]
Bytes(obj) == [isnil |-> FALSE, obj |-> obj]

\* The fields json.Marshal renders of the struct: all but the empty omitempty ones.
Rendered(i, e) ==
    SelectSeq(CoreFields, LAMBDA f : ~(OmitEmpty(f) /\ IsEmptyValue(FieldKind(i, f), e[f])))

\* Step 1: json.Marshal of the copy of the fixed fields (Extra is tagged "-").
MarshalCore(i, e) ==
    LET fs == Rendered(i, e)
    IN  IF \E x \in 1..Len(fs) : ~Encodable(e[fs[x]])
        THEN [bytes |-> NoBytes, err |-> UnsupportedTypeError]
        ELSE [bytes |-> Bytes([x \in 1..Len(fs) |-> <<JsonName(fs[x]), EncodeValue(e[fs[x]])>>]),
              err |-> NilErr]

\* Step 2: json.Unmarshal of an object into a map[string]interface{}.
Unmarshal(bytes) ==
    LET obj == bytes.obj
        keys == {obj[x][1] : x \in 1..Len(obj)}
        last(k) == CHOOSE x \in 1..Len(obj) :
                       obj[x][1] = k /\ \A y \in (x + 1)..Len(obj) : obj[y][1] # k
    IN  [k \in keys |-> DecodeValue(obj[last(k)][2])]

\* The keys of S in the order the struct declares them, any other key last.
DeclarationOrderKeys(S) ==
    SelectSeq(<<"success", "message", "code", "data", "total", "Extra", "ch", "extra", "page">>,
              LAMBDA k : k \in S)

\* The keys of S in the order json.Marshal writes a map's keys: sorted.
SortedKeys(S) == SelectSeq(KeyOrder, LAMBDA k : k \in S)

\* Step 4: json.Marshal of the merged map[string]interface{}.
MarshalMap(rm) ==
    LET ks == SortedKeys(DOMAIN rm)
    IN  IF \E k \in DOMAIN rm : ~Encodable(rm[k])
        THEN [bytes |-> NoBytes, err |-> UnsupportedTypeError]
        ELSE [bytes |-> Bytes([x \in 1..Len(ks) |-> <<ks[x], EncodeValue(rm[ks[x]])>>]),
              err |-> NilErr]

\* A merge that keeps the fixed field's value where Extra has the same key.
MergeExtraKeepFixed(rm, h, extra) ==
    IF extra.k = "nilmap"
    THEN rm
    ELSE LET m == h[extra.n]
         IN  [k \in DOMAIN rm \cup DOMAIN m |-> IF k \in DOMAIN rm THEN rm[k] ELSE m[k]]

\* A merge that nests Extra under a key of its own.
MergeExtraNested(rm, h, extra) ==
    IF extra.k = "nilmap"
    THEN rm
    ELSE [k \in DOMAIN rm \cup {"extra"} |-> IF k = "extra" THEN extra ELSE rm[k]]

\* Step 3: for k, v := range Extra { rm[k] = v }, skipped when Extra is nil.
MergeExtra(rm, h, extra) ==
    IF extra.k = "nilmap"
    THEN rm
    ELSE LET m == h[extra.n]
         IN  [k \in DOMAIN rm \cup DOMAIN m |-> IF k \in DOMAIN m THEN m[k] ELSE rm[k]]

\* A merge in the other direction: the decoded fixed fields are written into
\* the envelope's Extra map, where Extra has no entry under their key.
MapsAfterMergeIntoExtra(rm, h, extra) ==
    IF extra.k = "nilmap"
    THEN h
    ELSE [h EXCEPT ![extra.n] = MergeExtra(rm, h, extra)]

\* The maps the caller holds after step 3. The loop assigns to rm alone, the
\* map step 2 allocated, which no one else refers to: with rm as one more
\* object behind the caller's maps, the assignments change that object.
MapsAfterMerge(rm, h, extra) ==
    LET objects == [Append(h, rm) EXCEPT ![Len(h) + 1] = MergeExtra(rm, h, extra)]
    IN  SubSeq(objects, 1, Len(h))

\* A MarshalJSON that falls back to encoding Extra alone when the fixed fields
\* cannot be encoded.
MarshalJSONFallbackOf(i, h, e) ==
    LET r == MarshalCore(i, e)
        rm == IF r.err # NilErr THEN [k \in {} |-> GoNil] ELSE Unmarshal(r.bytes)
        m == MarshalMap(MergeExtra(rm, h, e["Extra"]))
    IN  [bytes |-> m.bytes, err |-> m.err, step |-> 4, recv |-> e,
         heap |-> MapsAfterMerge(rm, h, e["Extra"])]

\* HTTPResponseOptions.MarshalJSON: encode the fixed fields, decode them into
\* a map, merge Extra into the map, encode the map. step is the last step
\* it performed; the decoding of step 2 reads the object step 1 wrote and
\* does not fail. recv is the receiver after the call, which step 1 copies
\* field by field and nothing assigns to, and heap the caller's maps.
MarshalJSONOf(i, h, e) ==
    LET r == MarshalCore(i, e)
    IN  IF r.err # NilErr
        THEN [bytes |-> NoBytes, err |-> r.err, step |-> 1, recv |-> e, heap |-> h]
        ELSE LET rm == Unmarshal(r.bytes)
                 m == MarshalMap(MergeExtra(rm, h, e["Extra"]))
             IN  [bytes |-> m.bytes, err |-> m.err, step |-> 4, recv |-> e,
                  heap |-> MapsAfterMerge(rm, h, e["Extra"])]

\* The MarshalJSON of the second declaration of HTTPResponseOptions: return nil, nil.
MarshalJSONStubOf(i, h, e) ==
    [bytes |-> NoBytes, err |-> NilErr, step |-> 0, recv |-> e, heap |-> h]

---------------------------------------------------------------------------
(* mutators and providers *)

\* A mutator func(*T) error: one that assigns a field and returns nil, one
\* that returns an error, and the nil func.
SetField(f, v) == [op |-> "set", f |-> f, v |-> v, err |-> NilErr]
Fail(e) == [op |-> "fail", f |-> "", v |-> GoNil, err |-> e]
NilFunc == [op |-> "nil", f |-> "", v |-> GoNil, err |-> NilErr]

\* setArgs(t): the instance after the call and the error returned.
Invoke(setArgs, t) ==
    IF setArgs.op = "set"
    THEN [t |-> [t EXCEPT ![setArgs.f] = setArgs.v], err |-> NilErr]
    ELSE [t |-> t, err |-> setArgs.err]

\* A Lister[T] argument of Build: the nil interface, a nil pointer in the
\* interface, a pointer, or a value of a func or of a struct type. b > 0 refers to the b-th
\* HTTPResponseBuilder; a provider of another type carries its own list.
NilInterface == [kind |-> "nilif", b |-> 0, list |-> <<>>]
NilPointer == [kind |-> "nilptr", b |-> 0, list |-> <<>>]
BuilderRef(b) == [kind |-> "ptr", b |-> b, list |-> <<>>]
Lister(kind, list) == [kind |-> kind, b |-> 0, list |-> list]

\* HTTPResponseBuilder.List: the builder's Opts; another provider's own list.
List(bs, opt) == IF opt.b > 0 THEN bs[opt.b] ELSE opt.list

\* reflect.Value.IsNil is defined for chan, func, interface, map, pointer and
\* slice values and panics for every other kind.
IsNilDefined(opt) == opt.kind \in {"nilptr", "ptr", "func"}
IsNil(opt) == opt.kind = "nilptr"

\* The check without its opt == nil half.
NeverNilInterface(opt) == FALSE

\* opt == nil: the interface value itself is nil.
IsNilInterface(opt) == opt.kind = "nilif"

\* The pointer Build returns: nil, or the instance.
NilInstance(i) == [isnil |-> TRUE, v |-> ZeroEnvelope(i)]
Instance(t) == [isnil |-> FALSE, v |-> t]

---------------------------------------------------------------------------
(* rpsutil.Build *)

\* An inner loop that leaves the list at its first nil entry.
RECURSIVE ApplyListBreakOnNil(_, _, _, _)
ApplyListBreakOnNil(list, x, j, st) ==
    IF j > Len(list) \/ list[j] = NilFunc
    THEN st
    ELSE LET r == Invoke(list[j], st.t)
             log == Append(st.log, <<x, j>>)
         IN  IF r.err # NilErr
             THEN [st EXCEPT !.status = "failed", !.err = r.err, !.log = log]
             ELSE ApplyListBreakOnNil(list, x, j + 1, [st EXCEPT !.t = r.t, !.log = log])

\* The inner loop over opt.List() of provider x, from position j on. log
\* records the mutators invoked, each as <<provider, position>>.
RECURSIVE ApplyList(_, _, _, _)
ApplyList(list, x, j, st) ==
    IF j > Len(list)
    THEN st
    ELSE IF list[j] = NilFunc
    THEN ApplyList(list, x, j + 1, st)
    ELSE LET r == Invoke(list[j], st.t)
             log == Append(st.log, <<x, j>>)
         IN  IF r.err # NilErr
             THEN [st EXCEPT !.status = "failed", !.err = r.err, !.log = log]
             ELSE ApplyList(list, x, j + 1, [st EXCEPT !.t = r.t, !.log = log])

\* An outer loop that returns after the first provider it applies.
RECURSIVE ApplyFirstProvider(_, _, _, _)
ApplyFirstProvider(bs, os, x, st) ==
    IF x > Len(os)
    THEN st
    ELSE IF IsNilInterface(os[x])
    THEN ApplyFirstProvider(bs, os, x + 1, st)
    ELSE IF ~IsNilDefined(os[x])
    THEN [st EXCEPT !.status = "panic"]
    ELSE IF IsNil(os[x])
    THEN ApplyFirstProvider(bs, os, x + 1, st)
    ELSE ApplyList(List(bs, os[x]), x, 1, st)

\* The outer loop over opts, from provider x on.
RECURSIVE ApplyProviders(_, _, _, _)
ApplyProviders(bs, os, x, st) ==
    IF x > Len(os)
    THEN st
    ELSE IF IsNilInterface(os[x])
    THEN ApplyProviders(bs, os, x + 1, st)
    ELSE IF ~IsNilDefined(os[x])
    THEN [st EXCEPT !.status = "panic"]
    ELSE IF IsNil(os[x])
    THEN ApplyProviders(bs, os, x + 1, st)
    ELSE LET r == ApplyList(List(bs, os[x]), x, 1, st)
         IN  IF r.status = "failed" THEN r ELSE ApplyProviders(bs, os, x + 1, r)

\* Build: t := new(T), the loops, and return t, nil or nil, err.
Build(bs, i, os) ==
    LET st == ApplyProviders(bs, os, 1,
                  [status |-> "run", t |-> ZeroEnvelope(i), err |-> NilErr, log |-> <<>>])
    IN  CASE st.status = "run" ->
               [status |-> "return", t |-> Instance(st.t), err |-> NilErr, log |-> st.log]
          [] st.status = "failed" ->
               [status |-> "return", t |-> NilInstance(i), err |-> st.err, log |-> st.log]
          [] st.status = "panic" ->
               [status |-> "panic", t |-> NilInstance(i), err |-> NilErr, log |-> st.log]

---------------------------------------------------------------------------
(* bounds and inputs *)

MaxBuilders == 2     \* builders the caller creates
MaxCalls == 2        \* setter calls, over all builders
MaxProviders == 2    \* providers passed to one Build call
MaxMutators == 3     \* mutators, over all providers of another type than the builder
MaxThreadCalls == 2  \* setter calls one thread makes on the shared builder
MaxBuilds == 2       \* Build calls the caller makes with the same providers

\* The maps the caller allocated: heap[n] is the map GoMap(n) refers to.
CallerMaps ==
    << [k \in {} |-> GoNil],
       [k \in {"page"} |-> GoInt(2)],
       [k \in {"message"} |-> GoStr("overridden")],
       [k \in {"total", "code"} |-> IF k = "total" THEN GoInt(10) ELSE GoStr("X")],
       [k \in {"success", "data"} |-> IF k = "success" THEN GoBool(FALSE) ELSE GoNil],
       [k \in {"extra", "Extra"} |-> IF k = "extra" THEN GoStr("e") ELSE GoInt(1)],
       [k \in {"ch"} |-> GoChan] >>

\* The values of a type the caller passes, by the type's kind.
ValuesOf(kind) ==
    CASE kind = "bool" -> {GoBool(FALSE), GoBool(TRUE)}
      [] kind = "int" -> {GoInt(0), GoInt(200), GoBigInt(2^26, 1)}
      [] kind = "string" -> {GoStr(""), GoStr("ok")}
      [] kind = "struct" -> {GoStruct(0), GoStruct(1)}
      [] kind = "array" -> {GoArray(0), GoArray(1)}
      [] kind = "slice" -> {GoNilSlice, GoSlice(0), GoSlice(2)}
      [] kind = "ptr" -> {GoNilPtr, GoPtr(0)}
      [] kind = "any" -> {GoNil, GoStr(""), GoStr("d"), GoChan}
      [] kind = "map" -> {GoNilMap} \cup {GoMap(n) : n \in 1..Len(CallerMaps)}

\* The envelopes of one instantiation; 2^53 + 1 and 2^53 + 3 are integers
\* of a 64-bit Total.
Envelopes(i) ==
    [Success : ValuesOf("bool"), Message : ValuesOf("string"), Code : ValuesOf(i.C),
     Data : ValuesOf(i.D), Total : {GoInt(0), GoInt(3), GoBigInt(2^26, 1), GoBigInt(2^26, 3)},
     Extra : ValuesOf("map")]

\* The arguments the caller passes to the setters of the tests' instantiation.
SuccessArgs == {FALSE, TRUE}
MessageArgs == {"", "ok"}
CodeArgs == {200}
DataArgs == {"d"}
TotalArgs == {3}
ExtraArgs == {GoMap(3)}

\* The mutators of a provider of another type than the builder.
OtherMutators ==
    {NilFunc, Fail("e1"), Fail("e2"),
     SetField("Message", GoStr("a")), SetField("Message", GoStr("b"))}

\* addr is the address of the instance the call allocated with new(T); the
\* calls of one run allocate at the addresses 1, 2, ...
NoRet ==
    [status |-> "none", t |-> NilInstance(TestInstantiation), err |-> NilErr, log |-> <<>>,
     addr |-> 0]
NoPrev == [ret |-> NoRet, resp |-> NilInstance(TestInstantiation)]
NoOut == [impl |-> "none", bytes |-> NoBytes, err |-> NilErr, step |-> 0]

\* A nil slice, a thread outside every setter, and a caller that uses no lock.
NilHeader == [arr |-> 0, len |-> 0, cap |-> 0]
Idle == [pc |-> "idle", hdr |-> NilHeader, m |-> NilFunc, n |-> 0]
NoMutex == [on |-> FALSE, holder |-> 0]

\* The threads that share a builder.
Threads == {1, 2}

---------------------------------------------------------------------------
(* the caller *)

Init ==
    /\ inst = TestInstantiation
    /\ heap = CallerMaps
    /\ builders = <<>>
    /\ opts = <<>>
    /\ ret = NoRet
    /\ resp = NilInstance(TestInstantiation)
    /\ calls = <<>>
    /\ out = NoOut
    /\ pc = "client"
    /\ arrays = <<>>
    /\ hdr = NilHeader
    /\ threads = [t \in Threads |-> Idle]
    /\ mutex = NoMutex
    /\ prev = NoPrev

\* The setter calls made so far, over the first b builders: every builder's
\* list holds its calls after its seed.
RECURSIVE SumLen(_, _)
SumLen(bs, b) == IF b = 0 THEN 0 ELSE Len(bs[b]) - 1 + SumLen(bs, b - 1)

\* HTTPResponse() without its append: the new builder's Opts is empty.
HTTPResponseNoSeed ==
    /\ pc = "client"
    /\ Len(builders) < MaxBuilders
    /\ builders' = Append(builders, <<>>)
    /\ calls' = Append(calls, <<>>)
    /\ UNCHANGED <<prev, arrays, hdr, threads, mutex, inst, heap, opts, ret, resp, out, pc>>

\* HTTPResponse(): a new builder whose Opts holds the success = true mutator.
HTTPResponse ==
    /\ pc = "client"
    /\ Len(builders) < MaxBuilders
    /\ builders' = Append(builders, <<SetField("Success", GoBool(TRUE))>>)
    /\ calls' = Append(calls, <<>>)
    /\ UNCHANGED <<prev, arrays, hdr, threads, mutex, inst, heap, opts, ret, resp, out, pc>>

\* A setter that puts its mutator in front of the builder's Opts.
AppendOptInFront(b, f, v) ==
    /\ pc = "client"
    /\ SumLen(builders, Len(builders)) < MaxCalls
    /\ builders' = [builders EXCEPT ![b] = <<SetField(f, v)>> \o @]
    /\ calls' = [calls EXCEPT ![b] = Append(@, <<f, v, b>>)]
    /\ UNCHANGED <<prev, arrays, hdr, threads, mutex, inst, heap, opts, ret, resp, out, pc>>

\* A setter that appends its mutator twice.
AppendOptTwice(b, f, v) ==
    /\ pc = "client"
    /\ SumLen(builders, Len(builders)) < MaxCalls
    /\ builders' = [builders EXCEPT ![b] = Append(Append(@, SetField(f, v)), SetField(f, v))]
    /\ calls' = [calls EXCEPT ![b] = Append(@, <<f, v, b>>)]
    /\ UNCHANGED <<prev, arrays, hdr, threads, mutex, inst, heap, opts, ret, resp, out, pc>>

\* A setter's body: append one mutator to the builder's Opts and return the
\* builder it was called on.
AppendOpt(b, f, v) ==
    /\ pc = "client"
    /\ SumLen(builders, Len(builders)) < MaxCalls
    /\ builders' = [builders EXCEPT ![b] = Append(@, SetField(f, v))]
    /\ calls' = [calls EXCEPT ![b] = Append(@, <<f, v, b>>)]
    /\ UNCHANGED <<prev, arrays, hdr, threads, mutex, inst, heap, opts, ret, resp, out, pc>>

SetSuccess == \E b \in DOMAIN builders, success \in SuccessArgs :
                 AppendOpt(b, "Success", GoBool(success))
SetMessage == \E b \in DOMAIN builders, message \in MessageArgs :
                 AppendOpt(b, "Message", GoStr(message))
SetCode == \E b \in DOMAIN builders, code \in CodeArgs : AppendOpt(b, "Code", GoInt(code))
SetData == \E b \in DOMAIN builders, data \in DataArgs : AppendOpt(b, "Data", GoStr(data))
SetExtra == \E b \in DOMAIN builders, extra \in ExtraArgs : AppendOpt(b, "Extra", extra)
SetTotal == \E b \in DOMAIN builders, total \in TotalArgs : AppendOpt(b, "Total", GoInt(total))

\* The caller puts a builder into the argument list of the Build call.
Pass ==
    /\ pc = "client"
    /\ Len(opts) < MaxProviders
    /\ \E b \in DOMAIN builders : opts' = Append(opts, BuilderRef(b))
    /\ UNCHANGED <<prev, arrays, hdr, threads, mutex, inst, heap, builders, ret, resp, calls, out, pc>>

\* The caller puts a null provider into the argument list: the nil interface
\* value, or a nil pointer.
PassNil ==
    /\ pc = "client"
    /\ Len(opts) < MaxProviders
    /\ \E p \in {NilInterface, NilPointer} : opts' = Append(opts, p)
    /\ UNCHANGED <<prev, arrays, hdr, threads, mutex, inst, heap, builders, ret, resp, calls, out, pc>>

\* The mutators in the lists of the providers os.
RECURSIVE SumList(_)
SumList(os) == IF os = <<>> THEN 0 ELSE Len(Head(os).list) + SumList(Tail(os))

\* The caller puts a provider of a type of its own into the argument list: a
\* pointer, or a value of a func or of a struct type, whose List returns `list`.
PassLister ==
    /\ pc = "client"
    /\ Len(opts) < MaxProviders
    /\ \E kind \in {"ptr", "func", "struct"} : opts' = Append(opts, Lister(kind, <<>>))
    /\ UNCHANGED <<prev, arrays, hdr, threads, mutex, inst, heap, builders, ret, resp, calls, out, pc>>

\* The caller gives the provider it passes last one more mutator.
AddMutator ==
    /\ pc = "client"
    /\ opts # <<>>
    /\ opts[Len(opts)].kind \in {"ptr", "func", "struct"}
    /\ opts[Len(opts)].b = 0
    /\ SumList(opts) < MaxMutators
    /\ \E m \in OtherMutators :
          opts' = [opts EXCEPT ![Len(opts)].list = Append(@, m)]
    /\ UNCHANGED <<prev, arrays, hdr, threads, mutex, inst, heap, builders, ret, resp, calls, out, pc>>

\* What a Build call returns, with the address a of the instance it allocated.
At(r, a) == [status |-> r.status, t |-> r.t, err |-> r.err, log |-> r.log, addr |-> a]

\* rpsutil.Build(opts...)
CallBuild ==
    /\ pc = "client"
    /\ ret' = At(Build(builders, inst, opts), ret.addr + 1)
    /\ resp' = ret'.t
    /\ pc' = "built"
    /\ UNCHANGED <<prev, arrays, hdr, threads, mutex, inst, heap, builders, opts, calls, out>>

\* resp.MarshalJSON()
MarshalJSON ==
    /\ pc = "built"
    /\ ~resp.isnil
    /\ LET r == MarshalJSONOf(inst, heap, resp.v)
       IN  /\ out' = [impl |-> "merge", bytes |-> r.bytes, err |-> r.err, step |-> r.step]
           /\ resp' = [resp EXCEPT !.v = r.recv]
           /\ heap' = r.heap
    /\ pc' = "marshalled"
    /\ UNCHANGED <<prev, arrays, hdr, threads, mutex, inst, builders, opts, ret, calls>>

\* resp.MarshalJSON() of the second declaration of HTTPResponseOptions
MarshalJSONStub ==
    /\ pc = "built"
    /\ ~resp.isnil
    /\ LET r == MarshalJSONStubOf(inst, heap, resp.v)
       IN  /\ out' = [impl |-> "stub", bytes |-> r.bytes, err |-> r.err, step |-> r.step]
           /\ resp' = [resp EXCEPT !.v = r.recv]
           /\ heap' = r.heap
    /\ pc' = "marshalled"
    /\ UNCHANGED <<prev, arrays, hdr, threads, mutex, inst, builders, opts, ret, calls>>

Next ==
    \/ HTTPResponse
    \/ SetSuccess \/ SetMessage \/ SetCode \/ SetData \/ SetExtra \/ SetTotal
    \/ Pass
    \/ CallBuild
    \/ MarshalJSON

Spec == Init /\ [][Next]_vars

\* Build on providers of any type, null providers among them.
NextBuild == PassNil \/ PassLister \/ AddMutator \/ CallBuild \/ MarshalJSON

SpecBuild == Init /\ [][NextBuild]_vars

\* MarshalJSON on any envelope of any instantiation.
InitMarshal ==
    /\ inst \in Instantiations
    /\ heap = CallerMaps
    /\ builders = <<>>
    /\ opts = <<>>
    /\ ret = NoRet
    /\ resp \in {Instance(e) : e \in Envelopes(inst)}
    /\ calls = <<>>
    /\ out = NoOut
    /\ pc = "built"
    /\ arrays = <<>>
    /\ hdr = NilHeader
    /\ threads = [t \in Threads |-> Idle]
    /\ mutex = NoMutex
    /\ prev = NoPrev

NextMarshal == MarshalJSON \/ MarshalJSONStub

SpecMarshal == InitMarshal /\ [][NextMarshal]_vars

---------------------------------------------------------------------------
(* threads sharing one builder *)

\* The list a slice header denotes: the first len slots of its backing array.
Slice(as, h) == IF h.len = 0 THEN <<>> ELSE SubSeq(as[h.arr], 1, h.len)

\* An append that stores over the last element instead of after it.
AppendOverLast(as, h, m) ==
    [arrays |-> [as EXCEPT ![h.arr][h.len] = m], hdr |-> h]

\* append(s, m) for the slice s of header h: with spare capacity the element
\* is stored in the slot after the last one of the same backing array;
\* otherwise a new array of twice the capacity gets the elements and m. The
\* result is the header of the longer slice.
AppendElem(as, h, m) ==
    IF h.len < h.cap
    THEN [arrays |-> [as EXCEPT ![h.arr][h.len + 1] = m],
          hdr |-> [h EXCEPT !.len = h.len + 1]]
    ELSE [arrays |-> Append(as, Slice(as, h) \o <<m>> \o
                                    [x \in 1..(2 * h.cap - h.len - 1) |-> NilFunc]),
          hdr |-> [arr |-> Len(as) + 1, len |-> h.len + 1, cap |-> 2 * h.cap]]

\* A builder that HTTPResponse() returned, shared by the threads; the caller
\* either puts a lock around every setter call or uses none.
InitRace ==
    /\ inst = TestInstantiation
    /\ heap = CallerMaps
    /\ builders = << <<SetField("Success", GoBool(TRUE))>> >>
    /\ opts = <<>>
    /\ ret = NoRet
    /\ resp = NilInstance(TestInstantiation)
    /\ calls = << <<>> >>
    /\ out = NoOut
    /\ pc = "client"
    /\ arrays = << <<SetField("Success", GoBool(TRUE))>> >>
    /\ hdr = [arr |-> 1, len |-> 1, cap |-> 1]
    /\ threads = [t \in Threads |-> Idle]
    /\ mutex \in {NoMutex, [on |-> TRUE, holder |-> 0]}
    /\ prev = NoPrev

\* Thread t calls a setter, under the caller's lock if there is one, and the
\* setter reads httpResponseBuilder.Opts, the slice it will append to.
ReadOpts(t) ==
    /\ threads[t].pc = "idle"
    /\ threads[t].n < MaxThreadCalls
    /\ mutex.on => mutex.holder = 0
    /\ \E m \in {SetField("Success", GoBool(FALSE)), SetField("Message", GoStr("ok"))} :
          /\ threads' = [threads EXCEPT ![t] = [pc |-> "append", hdr |-> hdr, m |-> m, n |-> @.n]]
          /\ calls' = [calls EXCEPT ![1] = Append(@, <<m.f, m.v, 1>>)]
    /\ mutex' = IF mutex.on THEN [mutex EXCEPT !.holder = t] ELSE mutex
    /\ UNCHANGED <<prev, inst, heap, builders, opts, ret, resp, out, pc, arrays, hdr>>

\* The setter of thread t evaluates append(Opts, closure) on the slice it read.
AppendClosure(t) ==
    /\ threads[t].pc = "append"
    /\ LET r == AppendElem(arrays, threads[t].hdr, threads[t].m)
       IN  /\ arrays' = r.arrays
           /\ threads' = [threads EXCEPT ![t].pc = "write", ![t].hdr = r.hdr]
           /\ builders' = <<Slice(r.arrays, hdr)>>
    /\ UNCHANGED <<prev, inst, heap, opts, ret, resp, calls, out, pc, hdr, mutex>>

\* The setter of thread t assigns the result of append to Opts and returns.
WriteOpts(t) ==
    /\ threads[t].pc = "write"
    /\ hdr' = threads[t].hdr
    /\ builders' = <<Slice(arrays, threads[t].hdr)>>
    /\ threads' = [threads EXCEPT ![t] = [Idle EXCEPT !.n = threads[t].n + 1]]
    /\ mutex' = [mutex EXCEPT !.holder = 0]
    /\ UNCHANGED <<prev, inst, heap, opts, ret, resp, calls, out, pc, arrays>>

NextRace == \E t \in Threads : ReadOpts(t) \/ AppendClosure(t) \/ WriteOpts(t)

SpecRace == InitRace /\ [][NextRace]_vars

---------------------------------------------------------------------------
(* a caller that builds again and writes to what it holds *)

\* The setter calls made on the one builder before it is passed to Build.
ConfiguredCalls ==
    { <<>>,
      << <<"Extra", GoMap(2), 1>> >>,
      << <<"Message", GoStr("ok"), 1>>, <<"Extra", GoMap(1), 1>> >>,
      << <<"Extra", GoMap(4), 1>>, <<"Total", GoInt(3), 1>> >> }

\* The providers passed with the builder: none, or one whose mutator fails.
ConfiguredOpts == { <<BuilderRef(1)>>, <<BuilderRef(1), Lister("ptr", <<Fail("e1")>>)>> }

InitRebuild ==
    /\ inst = TestInstantiation
    /\ heap = CallerMaps
    /\ calls \in {<<cs>> : cs \in ConfiguredCalls}
    /\ builders = << <<SetField("Success", GoBool(TRUE))>> \o
                       [j \in DOMAIN calls[1] |-> SetField(calls[1][j][1], calls[1][j][2])] >>
    /\ opts \in ConfiguredOpts
    /\ ret = NoRet
    /\ resp = NilInstance(TestInstantiation)
    /\ out = NoOut
    /\ pc = "client"
    /\ arrays = <<>>
    /\ hdr = NilHeader
    /\ threads = [t \in Threads |-> Idle]
    /\ mutex = NoMutex
    /\ prev = NoPrev

\* A second Build that hands out the instance of the call before.
CallBuildAgainCached ==
    /\ pc = "built"
    /\ ret.status = "return"
    /\ ret.addr < MaxBuilds
    /\ prev' = [ret |-> ret, resp |-> resp]
    /\ UNCHANGED <<inst, heap, builders, opts, ret, resp, calls, out, pc, arrays, hdr, threads,
                   mutex>>

\* rpsutil.Build(opts...) once more, with the same providers; the caller
\* keeps the envelope of the call before.
CallBuildAgain ==
    /\ pc = "built"
    /\ ret.status = "return"
    /\ ret.addr < MaxBuilds
    /\ ret' = At(Build(builders, inst, opts), ret.addr + 1)
    /\ resp' = ret'.t
    /\ prev' = [ret |-> ret, resp |-> resp]
    /\ UNCHANGED <<inst, heap, builders, opts, calls, out, pc, arrays, hdr, threads, mutex>>

\* m[k] = v on a map.
Put(m, k, v) == [x \in DOMAIN m \cup {k} |-> IF x = k THEN v ELSE m[x]]

\* The caller assigns a field of the envelope Build returned last.
WriteField ==
    /\ pc = "built"
    /\ ~resp.isnil
    /\ resp' = [resp EXCEPT !.v["Message"] = GoStr("changed")]
    /\ UNCHANGED <<prev, inst, heap, builders, opts, ret, calls, out, pc, arrays, hdr, threads,
                   mutex>>

\* The caller inserts or overwrites an entry of the Extra map of the envelope
\* Build returned last: resp.Extra[k] = 9.
WriteExtra ==
    /\ pc = "built"
    /\ ~resp.isnil
    /\ resp.v["Extra"].k = "map"
    /\ \E k \in {"page", "total"} :
          heap' = [heap EXCEPT ![resp.v["Extra"].n] = Put(@, k, GoInt(9))]
    /\ UNCHANGED <<prev, inst, builders, opts, ret, resp, calls, out, pc, arrays, hdr, threads,
                   mutex>>

\* The caller writes to the map it passed to SetExtra: extra[k] = 7.
WriteCallerMap ==
    /\ pc = "built"
    /\ \E j \in DOMAIN calls[1], k \in {"page", "total"} :
          /\ calls[1][j][1] = "Extra"
          /\ heap' = [heap EXCEPT ![calls[1][j][2].n] = Put(@, k, GoInt(7))]
    /\ UNCHANGED <<prev, inst, builders, opts, ret, resp, calls, out, pc, arrays, hdr, threads,
                   mutex>>

NextRebuild == CallBuild \/ CallBuildAgain \/ WriteField \/ WriteExtra \/ WriteCallerMap

SpecRebuild == InitRebuild /\ [][NextRebuild]_vars

---------------------------------------------------------------------------
(* the claims *)

\* Build returned an instance built from the one builder b and nothing else.
BuiltFrom(b) ==
    /\ pc # "client"
    /\ opts # <<>>
    /\ \A x \in DOMAIN opts : opts[x] = BuilderRef(b)

\* The positions in calls[b] of the calls of field f's setter.
CallsOf(b, f) == {j \in DOMAIN calls[b] : calls[b][j][1] = f}

\* The argument of the last call of field f's setter on builder b.
LastArg(b, f) ==
    calls[b][CHOOSE j \in CallsOf(b, f) : \A j2 \in CallsOf(b, f) : j2 <= j][2]

\* The zero values of the fields of HTTPResponseOptions[int, string, map[string]any, int].
ZeroOfField(f) ==
    CASE f = "Success" -> [k |-> "bool", s |-> "", n |-> 0, h |-> 0]
      [] f = "Message" -> [k |-> "string", s |-> "", n |-> 0, h |-> 0]
      [] f = "Code" -> [k |-> "int", s |-> "", n |-> 0, h |-> 0]
      [] f = "Data" -> [k |-> "string", s |-> "", n |-> 0, h |-> 0]
      [] f = "Total" -> [k |-> "int", s |-> "", n |-> 0, h |-> 0]
      [] f = "Extra" -> [k |-> "nilmap", s |-> "", n |-> 0, h |-> 0]

\* C1: the envelope Build returns from one builder of HTTPResponse() has, for
\* each field, the argument of the last call of that field's setter, and the
\* zero value (a nil Extra) in each of message, code, data, total and extra
\* whose setter was never called.
C1_LastWriteWins ==
    \A b \in DOMAIN builders :
        BuiltFrom(b) =>
            /\ ret.status = "return" /\ ret.err = NilErr /\ ~ret.t.isnil
            /\ \A f \in FieldNames :
                  IF CallsOf(b, f) # {}
                  THEN ret.t.v[f] = LastArg(b, f)
                  ELSE f # "Success" => ret.t.v[f] = ZeroOfField(f)

\* C1's case: the same setter called twice with different arguments, the
\* other setters never, and Build returned.
C1_Witness ==
    \E b \in DOMAIN builders :
        /\ BuiltFrom(b)
        /\ Len(calls[b]) = 2
        /\ calls[b][1][1] = "Message" /\ calls[b][2][1] = "Message"
        /\ calls[b][1][2] # calls[b][2][2]
        /\ ret.t.v["Message"] = calls[b][2][2]
        /\ ret.t.v["Extra"].k = "nilmap"

\* C2: the seeded success = true mutator is the first entry of every builder's
\* list, and the envelope built from one builder has success = true when
\* SetSuccess was never called and the last SetSuccess argument otherwise.
C2_DefaultSuccess ==
    \A b \in DOMAIN builders :
        /\ Len(builders[b]) >= 1
        /\ builders[b][1] = [op |-> "set", f |-> "Success", v |-> GoBool(TRUE), err |-> NilErr]
        /\ BuiltFrom(b) =>
              /\ ~ret.t.isnil
              /\ ret.t.v["Success"] =
                    IF CallsOf(b, "Success") = {} THEN GoBool(TRUE) ELSE LastArg(b, "Success")

\* C2's case: SetSuccess(false) was the last SetSuccess call, and Build returned.
C2_Witness ==
    \E b \in DOMAIN builders :
        /\ BuiltFrom(b)
        /\ CallsOf(b, "Success") # {}
        /\ LastArg(b, "Success") = GoBool(FALSE)
        /\ ret.t.v["Success"] = GoBool(FALSE)
        /\ Len(calls[b]) = 2

\* A null provider: the nil interface value, or a nil pointer in the interface.
IsNull(opt) == opt.kind \in {"nilif", "nilptr"}

\* The mutator list of the x-th provider passed.
ListAt(x) == IF opts[x].b > 0 THEN builders[opts[x].b] ELSE opts[x].list

\* The concatenated mutator sequence of the providers passed, as positions
\* <<provider, index>>; null providers contribute nothing.
Positions ==
    UNION {{<<x, j>> : j \in DOMAIN ListAt(x)} : x \in {y \in DOMAIN opts : ~IsNull(opts[y])}}

MutatorAt(p) == ListAt(p[1])[p[2]]

\* Position p comes before position q in the concatenated sequence.
Before(p, q) == p[1] < q[1] \/ (p[1] = q[1] /\ p[2] < q[2])

\* The positions of the mutators that return an error.
Failing == {p \in Positions : MutatorAt(p).op = "fail"}

\* The entries of a sequence.
Range(q) == {q[a] : a \in DOMAIN q}

\* C3: if the first failing mutator of the concatenated mutator sequence is at
\* position k, Build returns a nil instance and that mutator's error, has
\* invoked every non-nil mutator up to k exactly once and in order, and none
\* after k.
C3_FirstFailureAborts ==
    (pc # "client" /\ Failing # {}) =>
        LET k == CHOOSE p \in Failing : \A q \in Failing : q = p \/ Before(p, q)
        IN  /\ ret.status = "return"
            /\ ret.t.isnil
            /\ ret.err = MutatorAt(k).err
            /\ Range(ret.log) =
                  {p \in Positions : MutatorAt(p).op # "nil" /\ (p = k \/ Before(p, k))}
            /\ \A a, b \in DOMAIN ret.log : a < b => Before(ret.log[a], ret.log[b])

\* The value the concatenated sequence assigns last to field f, or its zero value.
LastAssigned(f) ==
    LET A == {p \in Positions : MutatorAt(p).op = "set" /\ MutatorAt(p).f = f}
    IN  IF A = {}
        THEN ZeroOfField(f)
        ELSE MutatorAt(CHOOSE p \in A : \A q \in A : q = p \/ Before(q, p)).v

\* C4: Build invokes mutators in append order within a provider and in
\* argument order across providers, none twice; a Build that returns an
\* instance has invoked every non-nil mutator of every non-null provider
\* exactly once on that instance, so each field holds what the last mutator
\* in that order assigned: of two providers setting one field the later wins.
C4_InvocationOrder ==
    pc # "client" =>
        /\ \A a, b \in DOMAIN ret.log : a < b => Before(ret.log[a], ret.log[b])
        /\ \A a \in DOMAIN ret.log :
              ret.log[a] \in Positions /\ MutatorAt(ret.log[a]).op # "nil"
        /\ (ret.status = "return" /\ ~ret.t.isnil) =>
              /\ Range(ret.log) = {p \in Positions : MutatorAt(p).op # "nil"}
              /\ \A f \in FieldNames : ret.t.v[f] = LastAssigned(f)

\* C4's case: two providers assign different messages, and the instance Build
\* returns holds the second provider's.
C4_Witness ==
    /\ pc = "built"
    /\ Len(opts) = 2
    /\ ret.status = "return" /\ ~ret.t.isnil
    /\ \E p, q \in Positions :
          /\ p[1] = 1 /\ q[1] = 2
          /\ MutatorAt(p).op = "set" /\ MutatorAt(q).op = "set"
          /\ MutatorAt(p).f = MutatorAt(q).f /\ MutatorAt(p).v # MutatorAt(q).v
          /\ ret.t.v[MutatorAt(q).f] = MutatorAt(q).v
    /\ Len(ret.log) = 2

\* C5: with null providers among the arguments Build ends as it does on the
\* same arguments without them (same instance fields, same error, as many
\* mutators invoked), and null providers alone give an instance and no error.
C5_NullProvidersOmitted ==
    pc # "client" =>
        LET r == Build(builders, inst, SelectSeq(opts, LAMBDA o : ~IsNull(o)))
        IN  /\ ret.status = r.status
            /\ ret.t = r.t
            /\ ret.err = r.err
            /\ Len(ret.log) = Len(r.log)
            /\ (\A x \in DOMAIN opts : IsNull(opts[x])) =>
                  (ret.status = "return" /\ ret.err = NilErr /\ ~ret.t.isnil)

\* C5's case: a nil interface and a provider that assigns a message, in either
\* order, and Build returned the instance with that message.
C5_Witness ==
    /\ pc = "built"
    /\ \E x, y \in DOMAIN opts :
          /\ opts[x].kind = "nilif"
          /\ opts[y].kind = "ptr" /\ Len(opts[y].list) = 1 /\ opts[y].list[1].op = "set"
          /\ ret.status = "return" /\ ~ret.t.isnil
          /\ ret.t.v["Message"] = opts[y].list[1].v

\* C6: Build with zero providers returns a non-nil instance whose every field
\* is zero (success false, empty message, zero code, data and total, nil
\* extra) and a nil error.
C6_ZeroProviders ==
    (pc # "client" /\ opts = <<>>) =>
        /\ ret.status = "return"
        /\ ret.err = NilErr
        /\ ~ret.t.isnil
        /\ \A f \in FieldNames : ret.t.v[f] = ZeroOfField(f)

\* C6's case: Build was called with no provider and returned.
C6_Witness == pc = "built" /\ opts = <<>> /\ ret.status = "return" /\ ~resp.isnil

\* MarshalJSON (the merging one) returned bytes and a nil error.
Serialized == pc = "marshalled" /\ out.impl = "merge" /\ out.err = NilErr

\* The top-level keys of the output, and the values under key k.
OutKeys == {out.bytes.obj[x][1] : x \in DOMAIN out.bytes.obj}
OutValues(k) == {out.bytes.obj[x][2] : x \in {y \in DOMAIN out.bytes.obj : out.bytes.obj[y][1] = k}}

\* The envelope's Extra map; a nil Extra has no keys.
ExtraKeys == IF resp.v["Extra"].k = "nilmap" THEN {} ELSE DOMAIN heap[resp.v["Extra"].n]
ExtraValue(k) == heap[resp.v["Extra"].n][k]

\* A value that is the zero value of its type, or a string or slice of length zero.
ZeroOrEmpty(kind, v) ==
    \/ v = ZeroValue(kind)
    \/ kind = "string" /\ v.s = ""
    \/ kind = "slice" /\ v.k = "slice" /\ v.n = 0

\* {success, message} and each of code, data, total whose field is not listed in `omitted`.
FixedKeys(omitted) == {"success", "message"} \cup ({"code", "data", "total"} \ omitted)

\* C7 as stated: with nil or empty Extra the keys are success, message, and
\* each of code, data, total if and only if its field is non-zero/non-empty.
C7_KeysIffNonZero ==
    (Serialized /\ ExtraKeys = {}) =>
        OutKeys = FixedKeys({JsonName(f) : f \in {g \in {"Code", "Data", "Total"} :
                                 ZeroOrEmpty(FieldKind(inst, g), resp.v[g])}})

\* A field value json.Marshal's omitempty leaves out: false, 0, a nil pointer,
\* a nil interface value, a string or slice of length zero, and no struct or
\* array of two elements, whatever its value.
JsonEmpty(kind, v) ==
    /\ kind \notin {"struct", "array"}
    /\ \/ v.k \in {"nil", "nilptr", "nilslice"}
       \/ kind \in {"bool", "int"} /\ v.n = 0 /\ v.h = 0
       \/ kind = "string" /\ v.s = ""
       \/ kind = "slice" /\ v.n = 0

\* C7 amended: with nil or empty Extra the keys are success, message, and
\* each of code, data, total if and only if its field is not an empty value of
\* encoding/json (false, 0, nil pointer, nil interface, length-zero string,
\* slice, map or array): a struct-typed Data is rendered even when zero.
C7_KeysIffNotJsonEmpty ==
    (Serialized /\ ExtraKeys = {}) =>
        /\ OutKeys = FixedKeys({JsonName(f) : f \in {g \in {"Code", "Data", "Total"} :
                                   JsonEmpty(FieldKind(inst, g), resp.v[g])}})
        /\ Len(out.bytes.obj) = Cardinality(OutKeys)

\* C7's case: an empty, non-nil Extra, a zero struct as Data, zero Code and
\* Total: the output has the keys success, message and data.
C7_Witness ==
    /\ Serialized
    /\ resp.v["Extra"].k = "map" /\ ExtraKeys = {}
    /\ inst.D = "struct" /\ resp.v["Data"] = GoStruct(0)
    /\ resp.v["Code"].n = 0 /\ resp.v["Code"].s = "" /\ resp.v["Total"].n = 0
    /\ OutKeys = {"success", "message", "data"}

\* C8: under every key of Extra that is a fixed field's serialized name the
\* output holds Extra's value, not the fixed field's, also where the fixed
\* field was omitted as empty.
C8_ExtraOverridesFixed ==
    Serialized =>
        \A k \in ExtraKeys \cap {"success", "message", "code", "data", "total"} :
            OutValues(k) = {EncodeValue(ExtraValue(k))}

\* C8's case: Extra holds total and code, Total is rendered and Code omitted
\* as empty, and the output holds Extra's total and Extra's code.
C8_Witness ==
    /\ Serialized
    /\ ExtraKeys = {"total", "code"}
    /\ inst.C = "int" /\ resp.v["Code"] = GoInt(0) /\ resp.v["Total"] = GoInt(3)
    /\ OutValues("total") = {JNumber(10)}
    /\ OutValues("code") = {JString("X")}

\* C9: with a non-nil Extra the output's keys are the rendered fixed-field
\* keys and the keys of Extra, each key once, each Extra key with its Extra
\* value; no extra or Extra key appears unless Extra has that key.
C9_ExtraFlattened ==
    (Serialized /\ resp.v["Extra"].k # "nilmap") =>
        /\ OutKeys = ExtraKeys \cup
              FixedKeys({JsonName(f) : f \in {g \in {"Code", "Data", "Total"} :
                            JsonEmpty(FieldKind(inst, g), resp.v[g])}})
        /\ Len(out.bytes.obj) = Cardinality(OutKeys)
        /\ \A k \in ExtraKeys : OutValues(k) = {EncodeValue(ExtraValue(k))}
        /\ \A k \in {"extra", "Extra"} : k \in OutKeys => k \in ExtraKeys

\* C9's case: Extra holds page, Total is set, and page and total are sibling
\* top-level keys of the output.
C9_Witness ==
    /\ Serialized
    /\ ExtraKeys = {"page"}
    /\ resp.v["Total"] = GoInt(3)
    /\ {"page", "total"} \subseteq OutKeys
    /\ OutValues("page") = {JNumber(2)}
    /\ "extra" \notin OutKeys

\* C10: whenever a MarshalJSON of HTTPResponseOptions returns a nil error, its
\* output is a non-empty encoding of one object with the keys success and
\* message.
C10_SuccessAndMessageAlways ==
    (pc = "marshalled" /\ out.err = NilErr) =>
        /\ ~out.bytes.isnil
        /\ {"success", "message"} \subseteq OutKeys

\* The fixed-field encoding of the envelope: what step 1 of MarshalJSON produces.
FixedEncoding == MarshalCore(inst, resp.v).bytes.obj

Above2To53(j) == j.k = "number" /\ (j.h > 2^26 \/ (j.h = 2^26 /\ j.n > 0))

UnencodableFixed == {f \in {"Data"} : resp.v[f].k = "chan"}

\* The keys of Extra whose value json.Marshal cannot encode.
UnencodableExtra == {k \in ExtraKeys : ExtraValue(k).k = "chan"}

ListHoldsSeedAndCalls ==
    \A b \in DOMAIN builders :
        /\ Len(builders[b]) = Len(calls[b]) + 1
        /\ builders[b][1] = [op |-> "set", f |-> "Success", v |-> GoBool(TRUE), err |-> NilErr]
        /\ \A j \in DOMAIN calls[b] :
              /\ builders[b][j + 1] =
                    [op |-> "set", f |-> calls[b][j][1], v |-> calls[b][j][2], err |-> NilErr]
              /\ calls[b][j][3] = b

\* A step leaves every entry of every list where it is, adds at most one
\* entry to the end of one list, and, when it is the Build call that reads
\* the lists with List(), changes no list.
ListOnlyGrowsAtEnd ==
    /\ \A b \in DOMAIN builders :
          /\ b \in DOMAIN builders'
          /\ Len(builders'[b]) \in {Len(builders[b]), Len(builders[b]) + 1}
          /\ \A j \in DOMAIN builders[b] : builders'[b][j] = builders[b][j]
    /\ (pc = "client" /\ pc' = "built") => builders' = builders

\* C13: every setter call appends exactly one mutator to the end of the list
\* of the builder it is called on and returns that builder: after
\* HTTPResponse() and n setter calls List() has n + 1 entries, the first the
\* seeded success = true mutator; entries present keep their position and
\* are never removed; List() changes nothing.
C13_SettersAppendOne == []ListHoldsSeedAndCalls /\ [][ListOnlyGrowsAtEnd]_vars

\* C13's case: two setter calls on one builder, its list of three entries
\* read by Build.
C13_Witness ==
    /\ pc = "built"
    /\ \E b \in DOMAIN builders :
          /\ Len(calls[b]) = 2
          /\ Len(builders[b]) = 3
          /\ \E x \in DOMAIN opts : opts[x] = BuilderRef(b)
          /\ Len(ret.log) >= 3

\* The setter calls that have returned, over all threads.
Returned == threads[1].n + threads[2].n

\* C14: setter calls on a shared builder that the caller serializes lose no
\* mutator: the list is the seed followed by the mutator of every call that
\* has returned, in call order. Without the lock an interleaving of two
\* calls ends with a list shorter than 1 + the number of calls (C14_Witness).
C14_SerializedCallsLoseNothing ==
    mutex.on =>
        /\ Len(builders[1]) = 1 + Returned
        /\ builders[1][1] = [op |-> "set", f |-> "Success", v |-> GoBool(TRUE), err |-> NilErr]
        /\ \A j \in 1..Returned :
              builders[1][j + 1] =
                  [op |-> "set", f |-> calls[1][j][1], v |-> calls[1][j][2], err |-> NilErr]

\* C14's case: no lock, each thread made one setter call and both returned,
\* and the list holds the seed and one mutator only.
C14_Witness ==
    /\ ~mutex.on
    /\ threads[1] = [Idle EXCEPT !.n = 1]
    /\ threads[2] = [Idle EXCEPT !.n = 1]
    /\ Len(calls[1]) = 2
    /\ Len(builders[1]) = 2

\* C15: for every argument list of providers that implement Lister, of
\* pointer or of non-pointer type, Build ends by returning (instance, nil) or
\* (nil, error): it never aborts in its null-provider check.
C15_BuildAlwaysReturns ==
    pc # "client" =>
        /\ ret.status = "return"
        /\ ret.t.isnil <=> ret.err # NilErr

\* The providers with the nil entries removed from their mutator lists.
WithoutNilEntries(os) ==
    [x \in DOMAIN os |-> [os[x] EXCEPT !.list = SelectSeq(@, LAMBDA m : m.op # "nil")]]

\* C16: Build ends as it does on the same providers with the nil entries
\* removed from their lists (same instance fields, same error, as many
\* mutators invoked), and when it returns an instance every non-nil mutator
\* that follows a nil entry has been invoked, in list order.
C16_NilMutatorSkipped ==
    pc # "client" =>
        LET r == Build(builders, inst, WithoutNilEntries(opts))
        IN  /\ ret.status = r.status
            /\ ret.t = r.t
            /\ ret.err = r.err
            /\ Len(ret.log) = Len(r.log)
            /\ (ret.status = "return" /\ ~ret.t.isnil) =>
                  \A p, q \in Positions :
                      (p[1] = q[1] /\ p[2] < q[2] /\ MutatorAt(p).op = "nil"
                         /\ MutatorAt(q).op # "nil") =>
                          \E a \in DOMAIN ret.log : ret.log[a] = q

\* C16's case: a nil entry between two mutators that assign a message, and
\* Build returned the instance with the second message.
C16_Witness ==
    /\ pc = "built"
    /\ Len(opts) = 1
    /\ Len(opts[1].list) = 3
    /\ opts[1].list[1].op = "set" /\ opts[1].list[2].op = "nil" /\ opts[1].list[3].op = "set"
    /\ opts[1].list[1].v # opts[1].list[3].v
    /\ ret.status = "return" /\ ~ret.t.isnil
    /\ ret.t.v["Message"] = opts[1].list[3].v
    /\ ret.log = << <<1, 1>>, <<1, 3>> >>

Contents(x, h) ==
    [isnil |-> x.isnil,
     fields |-> x.v,
     extra |-> IF x.v["Extra"].k = "map" THEN h[x.v["Extra"].n] ELSE <<>>]

\* What the caller would see of the envelope a Build call made now returns.
LaterBuild(h) == Contents(Build(builders, inst, opts).t, h)

\* C18: the instance Build returned is the caller's alone: a write to it (a
\* field, or an entry of its Extra map) changes neither the instance of the
\* Build call before nor what a later Build of the same builder produces,
\* and a write to the map that was passed to SetExtra changes no instance
\* already built.
C18_InstanceExclusivelyOwned ==
    [][/\ (WriteField \/ WriteExtra) =>
            /\ Contents(prev.resp, heap') = Contents(prev.resp, heap)
            /\ LaterBuild(heap') = LaterBuild(heap)
       /\ WriteCallerMap =>
            /\ Contents(resp, heap') = Contents(resp, heap)
            /\ Contents(prev.resp, heap') = Contents(prev.resp, heap)]_vars

\* The integer fields whose key the output takes from the fixed fields: of an
\* integer type, rendered (not zero), and not overridden by a key of Extra.
RenderedIntegers ==
    {f \in {"Code", "Total"} :
        /\ FieldKind(inst, f) = "int"
        /\ resp.v[f] # GoInt(0)
        /\ JsonName(f) \notin ExtraKeys}

\* C19: for every integer value of Code and of Total the number under code
\* and under total in the output equals the field's value: the decode into a
\* generic map and the re-encode preserve it.
C19_IntegersPreserved ==
    Serialized =>
        \A f \in RenderedIntegers :
            OutValues(JsonName(f)) =
                {[k |-> "number", s |-> "", n |-> resp.v[f].n, h |-> resp.v[f].h]}

\* C20: Build on several builders of HTTPResponse() invokes the seeded
\* success = true mutator of every builder passed, and success is what the
\* last builder passed decides: the argument of its last SetSuccess call, and
\* true when SetSuccess was never called on it, whatever SetSuccess calls the
\* builders before it received.
C20_LaterSeedOverrides ==
    (pc # "client" /\ opts # <<>>) =>
        LET last == opts[Len(opts)].b
        IN  /\ ret.status = "return" /\ ~ret.t.isnil
            /\ \A x \in DOMAIN opts :
                  /\ \E a \in DOMAIN ret.log : ret.log[a] = <<x, 1>>
                  /\ builders[opts[x].b][1] =
                        [op |-> "set", f |-> "Success", v |-> GoBool(TRUE), err |-> NilErr]
            /\ ret.t.v["Success"] =
                  IF CallsOf(last, "Success") = {} THEN GoBool(TRUE) ELSE LastArg(last, "Success")

\* C20's case: SetSuccess(false) on the first builder passed, no SetSuccess
\* on the second, and Build returned success = true.
C20_Witness ==
    /\ pc = "built"
    /\ Len(opts) = 2
    /\ opts[1].b # opts[2].b
    /\ CallsOf(opts[1].b, "Success") # {}
    /\ LastArg(opts[1].b, "Success") = GoBool(FALSE)
    /\ CallsOf(opts[2].b, "Success") = {}
    /\ ~ret.t.isnil
    /\ ret.t.v["Success"] = GoBool(TRUE)

\* The key/value set of an output: its keys, each with its value.
KeyValues(bytes) == {bytes.obj[x] : x \in DOMAIN bytes.obj}

\* C21: MarshalJSON does not modify the envelope it serializes: a call,
\* successful or failed, leaves success, message, code, data and total and
\* the entries of the Extra map as they were, so serializing the envelope
\* once more yields the same error and the same key/value set.
C21_MarshalLeavesEnvelope ==
    [][(pc = "built" /\ pc' = "marshalled" /\ out'.impl = "merge") =>
          /\ resp' = resp
          /\ Contents(resp, heap') = Contents(resp, heap)
          /\ heap' = heap
          /\ LET again == MarshalJSONOf(inst', heap', resp'.v)
             IN  /\ again.err = out'.err
                 /\ again.bytes.isnil = out'.bytes.isnil
                 /\ KeyValues(again.bytes) = KeyValues(out'.bytes)]_vars

\* C21's case: an envelope whose Extra holds total and code, keys of fixed
\* fields too, was serialized, and Extra still holds those two entries alone.
C21_Witness ==
    /\ Serialized
    /\ resp.v["Extra"] = GoMap(4)
    /\ resp.v["Total"] = GoInt(3)
    /\ DOMAIN heap[4] = {"total", "code"}
    /\ heap[4]["total"] = GoInt(10)
    /\ {"success", "message", "total", "code"} \subseteq OutKeys
=============================================================================
